---- MODULE Spec2Model ----
(***************************************************************************)
(* PDF attendance extractor: the header matcher, column mapper, row        *)
(* projector and table walker of backend/extractor.py as a state machine.  *)
(*                                                                         *)
(* Text is a sequence of one-character strings, so that case folding,      *)
(* trimming, whitespace splitting and substring tests are computed the way *)
(* Python computes them.  Python's None is a separate value for a cell     *)
(* (NoneCell), for the synonym table argument (NoneColumns) and for the    *)
(* walker's column map (a record with isNone).                             *)
(***************************************************************************)
EXTENDS Naturals, Sequences, FiniteSets, TLC

\* ------------------------------------------------------------------------
\* Python str primitives
\* ------------------------------------------------------------------------

\* characters str.split() and str.strip() treat as whitespace
Whitespace == {" ", "\n", "\t"}

\* str.lower() on one character
ToLower ==
  [c \in {"A","B","C","D","E","F","G","H","I","J","K","L","M",
          "N","O","P","Q","R","S","T","U","V","W","X","Y","Z"} |->
     CASE c = "A" -> "a" [] c = "B" -> "b" [] c = "C" -> "c" [] c = "D" -> "d"
       [] c = "E" -> "e" [] c = "F" -> "f" [] c = "G" -> "g" [] c = "H" -> "h"
       [] c = "I" -> "i" [] c = "J" -> "j" [] c = "K" -> "k" [] c = "L" -> "l"
       [] c = "M" -> "m" [] c = "N" -> "n" [] c = "O" -> "o" [] c = "P" -> "p"
       [] c = "Q" -> "q" [] c = "R" -> "r" [] c = "S" -> "s" [] c = "T" -> "t"
       [] c = "U" -> "u" [] c = "V" -> "v" [] c = "W" -> "w" [] c = "X" -> "x"
       [] c = "Y" -> "y" [] c = "Z" -> "z"]

RECURSIVE lower(_)
lower(s) ==
  IF s = <<>> THEN <<>>
  ELSE <<IF Head(s) \in DOMAIN ToLower THEN ToLower[Head(s)] ELSE Head(s)>>
       \o lower(Tail(s))

\* str.split() with no argument: the maximal runs of non-whitespace
RECURSIVE SplitFrom(_, _, _)
SplitFrom(s, cur, out) ==
  IF s = <<>>
  THEN IF cur = <<>> THEN out ELSE Append(out, cur)
  ELSE IF Head(s) \in Whitespace
       THEN SplitFrom(Tail(s), <<>>, IF cur = <<>> THEN out ELSE Append(out, cur))
       ELSE SplitFrom(Tail(s), Append(cur, Head(s)), out)

split(s) == SplitFrom(s, <<>>, <<>>)

\* sep.join(toks)
RECURSIVE join(_, _)
join(sep, toks) ==
  IF toks = <<>> THEN <<>>
  ELSE IF Len(toks) = 1 THEN toks[1]
  ELSE toks[1] \o sep \o join(sep, Tail(toks))

RECURSIVE lstrip(_)
lstrip(s) ==
  IF s = <<>> THEN <<>>
  ELSE IF Head(s) \in Whitespace THEN lstrip(Tail(s)) ELSE s

RECURSIVE rstrip(_)
rstrip(s) ==
  IF s = <<>> THEN <<>>
  ELSE IF s[Len(s)] \in Whitespace THEN rstrip(SubSeq(s, 1, Len(s) - 1)) ELSE s

\* str.strip()
strip(s) == rstrip(lstrip(s))

\* Python's `sub in s` on strings
contains(sub, s) ==
  \E i \in 0..(Len(s) - Len(sub)) : SubSeq(s, i + 1, i + Len(sub)) = sub

\* ------------------------------------------------------------------------
\* Values
\* ------------------------------------------------------------------------

\* a table cell that is None (no text); every other cell is a string
NoneCell == <<"<None>">>

\* columns=None: the caller passes no synonym table
NoneColumns == <<>>

\* _match_column's return value None
NoMatch == "None"

DEFAULT_COLUMNS ==
  << [canonical |-> "lastname",
      variants |-> << <<"l","a","s","t","n","a","m","e">>,
                      <<"l","a","s","t"," ","n","a","m","e">>,
                      <<"l","a","s","t","_","n","a","m","e">>,
                      <<"s","u","r","n","a","m","e">> >>],
     [canonical |-> "firstname",
      variants |-> << <<"f","i","r","s","t","n","a","m","e">>,
                      <<"f","i","r","s","t"," ","n","a","m","e">>,
                      <<"f","i","r","s","t","_","n","a","m","e">>,
                      <<"g","i","v","e","n"," ","n","a","m","e">> >>],
     [canonical |-> "middlename",
      variants |-> << <<"m","i","d","d","l","e","n","a","m","e">>,
                      <<"m","i","d","d","l","e"," ","n","a","m","e">>,
                      <<"m","i","d","d","l","e","_","n","a","m","e">>,
                      <<"m","i">>,
                      <<"m",".","i",".">> >>],
     [canonical |-> "extension",
      variants |-> << <<"e","x","t","e","n","s","i","o","n">>,
                      <<"e","x","t">>,
                      <<"e","x","t",".">>,
                      <<"n","a","m","e"," ","e","x","t","e","n","s","i","o","n">>,
                      <<"s","u","f","f","i","x">> >>],
     [canonical |-> "gender",
      variants |-> << <<"g","e","n","d","e","r">>,
                      <<"s","e","x">> >>] >>

\* ------------------------------------------------------------------------
\* Internal helpers
\* ------------------------------------------------------------------------

\* the same without .lower()
_normalise_nolower(text) ==
  IF text = NoneCell THEN <<>> ELSE join(<<" ">>, split(text))

\* " ".join(str(text).lower().split()), "" for None
_normalise(text) ==
  IF text = NoneCell THEN <<>> ELSE join(<<" ">>, split(lower(text)))

\* the same with `v in h` alone
RECURSIVE AnyVariant_oneway(_, _)
AnyVariant_oneway(h, variants) ==
  IF variants = <<>> THEN FALSE
  ELSE IF contains(Head(variants), h) THEN TRUE
  ELSE AnyVariant_oneway(h, Tail(variants))

\* for v in variants: if v in h or h in v: return canonical
RECURSIVE AnyVariant(_, _)
AnyVariant(h, variants) ==
  IF variants = <<>> THEN FALSE
  ELSE IF contains(Head(variants), h) \/ contains(h, Head(variants)) THEN TRUE
  ELSE AnyVariant(h, Tail(variants))

\* for canonical, variants in target.items(): ... return canonical; return None
RECURSIVE FirstField(_, _)
FirstField(h, target) ==
  IF target = <<>> THEN NoMatch
  ELSE IF AnyVariant(h, Head(target).variants) THEN Head(target).canonical
  ELSE FirstField(h, Tail(target))

_match_column(header, columns) ==
  LET h == _normalise(header)
  IN IF h = <<>> THEN NoMatch
     ELSE FirstField(h, IF columns = NoneColumns THEN DEFAULT_COLUMNS ELSE columns)

\* `match not in col_map`: the keys are indexes, no field name is among them
MapValues_keys(col_map) == {}

\* col_map.values()
MapValues(col_map) == {col_map[i].field : i \in 1..Len(col_map)}

\* for idx, raw in enumerate(headers): ...; idx is zero-based
RECURSIVE BuildFrom(_, _, _, _)
BuildFrom(headers, idx, columns, col_map) ==
  IF idx >= Len(headers) THEN col_map
  ELSE LET raw == headers[idx + 1]
           match == _match_column(IF raw = NoneCell \/ raw = <<>> THEN <<>> ELSE raw,
                                  columns)
       IN IF match # NoMatch /\ match \notin MapValues(col_map)
          THEN BuildFrom(headers, idx + 1, columns,
                         Append(col_map, [idx |-> idx, field |-> match]))
          ELSE BuildFrom(headers, idx + 1, columns, col_map)

\* the dict index -> canonical field, as its items in insertion order
_build_column_map(headers, columns) == BuildFrom(headers, 0, columns, <<>>)

\* StudentRecord(): every field defaults to ""
EmptyRecord ==
  [lastname |-> <<>>, firstname |-> <<>>, middlename |-> <<>>,
   extension |-> <<>>, gender |-> <<>>]

\* the same without .strip()
FieldValue_nostrip(row, idx) ==
  LET val == IF idx < Len(row) THEN row[idx + 1] ELSE NoneCell
  IN IF val = NoneCell \/ val = <<>> THEN <<>> ELSE val

\* fields[canonical] = str(val).strip() if val else ""
FieldValue(row, idx) ==
  LET val == IF idx < Len(row) THEN row[idx + 1] ELSE NoneCell
  IN IF val = NoneCell \/ val = <<>> THEN <<>> ELSE strip(val)

RECURSIVE ProjectFrom(_, _, _)
ProjectFrom(row, items, rec) ==
  IF items = <<>> THEN rec
  ELSE ProjectFrom(row, Tail(items),
                   [rec EXCEPT ![Head(items).field] = FieldValue(row, Head(items).idx)])

\* the same with `fields` started afresh in every iteration
_row_to_student_last(r, cm) ==
  ProjectFrom(r, IF cm = <<>> THEN <<>> ELSE <<cm[Len(cm)]>>, EmptyRecord)

\* fields = {}; for idx, canonical in col_map.items(): ...; StudentRecord(**fields)
_row_to_student(r, cm) == ProjectFrom(r, cm, EmptyRecord)

\* StudentRecord.is_empty: not any([...]) over the raw field strings
is_empty(student) ==
  ~(\/ student.lastname # <<>>
    \/ student.firstname # <<>>
    \/ student.middlename # <<>>
    \/ student.extension # <<>>
    \/ student.gender # <<>>)

\* ------------------------------------------------------------------------
\* extract_from_pdf: the table walker
\* ------------------------------------------------------------------------

\* bounds of the documents explored: pages, tables, rows of one table, rows in all
MaxPages == 2
MaxTables == 2
MaxRows == 3
MaxDocRows == 4

\* rows the external PDF table source may deliver (lists of nullable cells)
RowLastFirst == << <<"L","a","s","t","n","a","m","e">>, <<"F","i","r","s","t","n","a","m","e">> >>
RowFirstLast == << <<"F","i","r","s","t","n","a","m","e">>, <<"L","a","s","t","n","a","m","e">> >>
RowOneM == << <<"1">>, <<"M">> >>
RowOneBlank == << <<"1">>, <<" ">> >>
RowNoneBlank == << NoneCell, <<" ">> >>
RowEmpty == << >>

RowPool == {RowLastFirst, RowFirstLast, RowOneM, RowOneBlank, RowNoneBlank, RowEmpty}

\* tables page.extract_tables() may deliver
TablesOfLen(n) == [1..n -> RowPool]
Tables == UNION {TablesOfLen(n) : n \in 0..MaxRows}

\* the columns arguments explored: None, and a narrower table in another order
CUSTOM_COLUMNS ==
  << [canonical |-> "gender", variants |-> << <<"s","e","x">> >>],
     [canonical |-> "firstname", variants |-> << <<"n","a","m","e">> >>],
     [canonical |-> "lastname", variants |-> << <<"s","u","r","n","a","m","e">> >>],
     [canonical |-> "middlename", variants |-> << <<"m","i">> >>],
     [canonical |-> "extension", variants |-> << <<"e","x","t">> >>] >>

ColumnsPool == {NoneColumns, CUSTOM_COLUMNS}

\* _build_column_map on the rows of RowPool, computed once
ColumnMapOf == [r \in RowPool, c \in ColumnsPool |-> _build_column_map(r, c)]

\* the cells of RowPool, and _match_column on them, computed once
CellPool == UNION {{r[i] : i \in 1..Len(r)} : r \in RowPool}
MatchOf == [c \in CellPool, cols \in ColumnsPool |-> _match_column(c, cols)]

\* the error strings of extract_from_pdf, without the file name
ErrFileNotFound == "File not found"
ErrNotPdf == "Not a PDF file"
ErrNoPages == "PDF has no pages"
ErrNoTable == "No recognisable attendance table found"
ErrException == "Error processing"

\* the paths explored: missing or on disk, under the suffixes .Pdf, .txt and
\* none; the files of a batch have .pdf and .PDF
SuffixPool == {<<".", "P", "d", "f">>, <<".", "t", "x", "t">>, <<>>}
PathPool == [exists : BOOLEAN, suffix : SuffixPool]

\* no call, no path
NoPath == [exists |-> FALSE, suffix |-> <<>>]

\* the same without .lower()
IsPdf_cased(suffix) == suffix = <<".", "p", "d", "f">>

\* file_path.suffix.lower() == ".pdf"
IsPdf(suffix) == lower(suffix) = <<".", "p", "d", "f">>

\* col_map: dict[int, str] | None
NoneMap == [isNone |-> TRUE, items |-> <<>>]
SomeMap(items) == [isNone |-> FALSE, items |-> items]

VARIABLES
  pc,         \* position in extract_from_pdf
  file_path,  \* the file_path argument: whether it exists, and its suffix
  columns,    \* the columns argument
  page,       \* number of pages of pdf.pages taken so far
  ntables,    \* number of tables taken so far, over all pages
  nrows,      \* number of rows of the tables taken so far
  table,      \* the table of the current iteration
  col_map,    \* the carried column map
  data_rows,  \* the rows the row loop has still to visit
  students,   \* result.students
  errors,     \* result.errors
  recognised, \* history: some table so far had a recognisable candidate header row
  entry,      \* history: col_map, len(result.students) and recognised when the
              \* current table was taken
  headers,    \* a header row handed to _build_column_map
  matched,    \* _match_column's result for each cell of headers
  built,      \* _build_column_map's result for headers
  cpc,        \* position of the column mapper's run
  h1,         \* a header string
  h2,         \* h1 after changes of letter case and whitespace
  m1,         \* _match_column's result for h1
  m2,         \* _match_column's result for h2
  loose,      \* history: a change split a word of h2 or joined two of its words
  edits,      \* number of changes made to h2
  hpc,        \* position of the header matcher's run
  in_row,     \* a data row handed to _row_to_student
  in_map,     \* the column map handed to _row_to_student, as its items
  out_student,  \* _row_to_student's result for in_row
  in_row2,    \* in_row with one cell at an unmapped index replaced
  out_student2, \* _row_to_student's result for in_row2
  rpc,        \* position of the row projector's run
  file_paths, \* extract_batch's file_paths, each with what is on disk under it
  cpu_count,  \* os.cpu_count(), 0 for None
  max_workers,  \* the size of the process pool
  next_task,  \* number of calls the pool's workers have taken, in input order
  running,    \* the calls (indexes into file_paths) workers are running
  outcomes,   \* what each call has come to, by index
  finished_order, \* history: the indexes in the order their calls finished
  results,    \* extract_batch's return value
  aggregated, \* aggregate_students' return value
  bpc,        \* position in extract_batch and aggregate_students
  raw_name,   \* the record handed to _build_full_name
  full_name,  \* _build_full_name's result
  npc,        \* position of _build_full_name's run
  export_records, \* the records handed to export_to_excel or export_to_google_sheet
  ws,         \* the worksheet of the workbook: its rows of cell values, by row index
  widths,     \* ws.column_dimensions[...].width, by column
  stream,     \* the rows of the saved workbook
  nwritten,   \* number of iterations of the data loop done
  creds_exists, \* whether the credentials file exists
  remote,     \* whether the named spreadsheet, and in it the named tab, exist
              \* before the call
  tab,        \* the rows of the named tab
  calls,      \* the calls made to gspread so far, by name
  spreadsheet,  \* the local spreadsheet: "opened", "created" or "none"
  url,        \* export_to_google_sheet's return value
  error,      \* the exception that left export_to_google_sheet
  xpc,        \* position in export_to_excel or export_to_google_sheet
  endpoint,   \* the export endpoint a request came to: "excel" or "gsheet"
  request_data, \* request.data: the students of each file result
  status_code,  \* the status code of the response, 0 before there is one
  apc         \* position in the endpoint's handler

wvars == <<pc, file_path, page, ntables, nrows, table, col_map, data_rows, students, errors,
           recognised, entry>>
cvars == <<headers, matched, built, cpc>>
hvars == <<h1, h2, m1, m2, loose, edits, hpc>>
rvars == <<in_row, in_map, out_student, in_row2, out_student2, rpc>>
bvars == <<file_paths, cpu_count, max_workers, next_task, running, outcomes,
           finished_order, results, aggregated, bpc>>
nvars == <<raw_name, full_name, npc>>
gvars == <<creds_exists, remote, tab, calls, spreadsheet, url, error>>
xvars == <<export_records, ws, widths, stream, nwritten, gvars, xpc>>
avars == <<endpoint, request_data, status_code, apc>>
exporter_vars == <<nvars, xvars, avars>>
evars == <<rvars, bvars, exporter_vars>>
vars == <<columns, wvars, cvars, hvars, evars>>

NoEntry == [col_map |-> NoneMap, n |-> 0, recognised |-> FALSE]

\* extract_from_pdf is entered (at = "start") or not in use (at = "idle")
WalkerAt(at) ==
  /\ pc = at
  /\ at = "idle" => file_path = NoPath
  /\ page = 0
  /\ ntables = 0
  /\ nrows = 0
  /\ table = <<>>
  /\ col_map = NoneMap
  /\ data_rows = <<>>
  /\ students = <<>>
  /\ errors = <<>>
  /\ recognised = FALSE
  /\ entry = NoEntry

\* _build_column_map is entered with an empty row (at = "input") or not in use
MapperAt(at) ==
  /\ headers = <<>>
  /\ matched = <<>>
  /\ built = <<>>
  /\ cpc = at

\* the header matcher is not in use
MatcherIdle ==
  /\ h1 = <<>>
  /\ h2 = <<>>
  /\ m1 = NoMatch
  /\ m2 = NoMatch
  /\ loose = FALSE
  /\ edits = 0
  /\ hpc = "idle"

\* _row_to_student is entered with an empty row and an empty map (at = "input")
\* or not in use
RowAt(at) ==
  /\ in_row = <<>>
  /\ in_map = <<>>
  /\ out_student = EmptyRecord
  /\ in_row2 = <<>>
  /\ out_student2 = EmptyRecord
  /\ rpc = at

\* extract_batch is entered with no paths yet (at = "input") or not in use
BatchAt(at) ==
  /\ file_paths = <<>>
  /\ cpu_count = 0
  /\ max_workers = 0
  /\ next_task = 0
  /\ running = {}
  /\ outcomes = <<>>
  /\ finished_order = <<>>
  /\ results = <<>>
  /\ aggregated = <<>>
  /\ bpc = at

\* _build_full_name is not in use
NameIdle ==
  /\ raw_name = [lastname |-> <<>>, firstname |-> <<>>, middlename |-> <<>>,
                 extension |-> <<>>]
  /\ full_name = <<>>
  /\ npc = "idle"

\* export_to_excel and export_to_google_sheet are about to be handed records
\* (at = "input") or not in use
ExportAt(at) ==
  /\ export_records = <<>>
  /\ ws = <<>>
  /\ widths = <<>>
  /\ stream = <<>>
  /\ nwritten = 0
  /\ calls = <<>>
  /\ spreadsheet = "none"
  /\ url = ""
  /\ error = ""
  /\ at = "idle" =>
       /\ creds_exists = FALSE
       /\ remote = [spreadsheet |-> FALSE, worksheet |-> FALSE]
       /\ tab = <<>>
  /\ xpc = at

\* no request has come to an export endpoint
ApiIdle ==
  /\ endpoint = "none"
  /\ request_data = <<>>
  /\ status_code = 0
  /\ apc = "idle"

\* exporter.py is not in use
ExporterIdle == NameIdle /\ ExportAt("idle") /\ ApiIdle

\* extract_from_pdf(file_path) as main.py calls it through extract_batch: columns=None
Init ==
  /\ columns = NoneColumns
  /\ file_path \in PathPool
  /\ WalkerAt("start")
  /\ MapperAt("idle")
  /\ MatcherIdle
  /\ RowAt("idle")
  /\ BatchAt("idle")
  /\ ExporterIdle

\* return result: the locals of the call are gone
Return(err) ==
  /\ errors' = IF err = "" THEN errors ELSE Append(errors, err)
  /\ pc' = "done"
  /\ table' = <<>>
  /\ data_rows' = <<>>
  /\ col_map' = NoneMap
  /\ entry' = NoEntry
  /\ UNCHANGED <<file_path, columns, page, ntables, nrows, students, recognised>>
  /\ UNCHANGED <<cvars, hvars, evars>>

\* if not file_path.exists(): one error, return
FileNotFound ==
  /\ pc = "start"
  /\ ~file_path.exists
  /\ Return(ErrFileNotFound)

\* if not file_path.suffix.lower() == ".pdf": one error, return
NotAPdf ==
  /\ pc = "start"
  /\ file_path.exists
  /\ ~IsPdf(file_path.suffix)
  /\ Return(ErrNotPdf)

\* the two checks before `try` are passed
Checked == file_path.exists /\ IsPdf(file_path.suffix)

\* the same without `return result`: the walk goes on
NoPages_no_return ==
  /\ pc = "start"
  /\ Checked
  /\ errors' = Append(errors, ErrNoPages)
  /\ col_map' = NoneMap
  /\ pc' = "pages"
  /\ page' = 1
  /\ UNCHANGED <<file_path, columns, ntables, nrows, table, data_rows, students,
                 recognised, entry>>
  /\ UNCHANGED <<cvars, hvars, evars>>

\* if not pdf.pages: one error, return
NoPages ==
  /\ pc = "start"
  /\ Checked
  /\ Return(ErrNoPages)

\* the document opens and has at least one page: col_map = None
OpenOk ==
  /\ pc = "start"
  /\ Checked
  /\ col_map' = NoneMap
  /\ pc' = "pages"
  /\ UNCHANGED <<file_path, columns, page, ntables, nrows, table, data_rows, students, errors,
                 recognised, entry>>
  /\ UNCHANGED <<cvars, hvars, evars>>

\* for page in pdf.pages: tables = page.extract_tables(); if not tables: continue
NextPage ==
  /\ pc = "pages"
  /\ page < MaxPages
  /\ page' = page + 1
  /\ \/ pc' = "pages"
     \/ pc' = "tables"
  /\ UNCHANGED <<file_path, columns, ntables, nrows, table, col_map, data_rows, students, errors,
                 recognised, entry>>
  /\ UNCHANGED <<cvars, hvars, evars>>

\* the same with a single row taken as the header row when none is carried
SkipTable_header_kept ==
  /\ pc = "tables"
  /\ ntables < MaxTables
  /\ \E n \in 0..1 : \E t \in TablesOfLen(n) :
       /\ nrows + Len(t) <= MaxDocRows
       /\ nrows' = nrows + Len(t)
       /\ table' = t
       /\ col_map' = IF Len(t) = 1 /\ col_map.isNone
                     THEN SomeMap(ColumnMapOf[t[1], columns])
                     ELSE col_map
  /\ ntables' = ntables + 1
  /\ UNCHANGED <<pc, file_path, columns, page, data_rows, students, errors,
                 recognised, entry>>
  /\ UNCHANGED <<cvars, hvars, evars>>

\* if not table or len(table) < 2: continue
SkipTable ==
  /\ pc = "tables"
  /\ ntables < MaxTables
  /\ \E n \in 0..1 : \E t \in TablesOfLen(n) :
       /\ nrows + Len(t) <= MaxDocRows
       /\ nrows' = nrows + Len(t)
       /\ table' = t
  /\ ntables' = ntables + 1
  /\ UNCHANGED <<pc, file_path, columns, page, col_map, data_rows, students, errors,
                 recognised, entry>>
  /\ UNCHANGED <<cvars, hvars, evars>>

\* data_rows = table[1:]
RowsAfterHeader(t) == Tail(t)

\* data_rows = table[2:], after a title row and a header row
RowsAfterSecond_fromSecond(t) == SubSeq(t, 2, Len(t))
RowsAfterSecond(t) == SubSeq(t, 3, Len(t))

\* if test_map and len(test_map) >= 2
LooksLikeHeader_one(test_map) == test_map # <<>> /\ Len(test_map) >= 1
LooksLikeHeader(test_map) == test_map # <<>> /\ Len(test_map) >= 2

\* the header decision of one table with at least 2 rows: the new col_map and
\* the data rows, or skip = TRUE for `continue`
HeaderDecision(t, cm) ==
  IF cm.isNone
  THEN LET first == ColumnMapOf[t[1], columns]
       IN IF first = <<>>
          THEN IF Len(t) > 2
               THEN LET second == ColumnMapOf[t[2], columns]
                    IN IF second # <<>>
                       THEN [skip |-> FALSE, col_map |-> SomeMap(second),
                             data_rows |-> RowsAfterSecond(t)]
                       ELSE [skip |-> TRUE, col_map |-> SomeMap(second),
                             data_rows |-> <<>>]
               ELSE [skip |-> TRUE, col_map |-> SomeMap(first), data_rows |-> <<>>]
          ELSE [skip |-> FALSE, col_map |-> SomeMap(first),
                data_rows |-> RowsAfterHeader(t)]
  ELSE LET test_map == ColumnMapOf[t[1], columns]
       IN IF LooksLikeHeader(test_map)
          THEN [skip |-> FALSE, col_map |-> cm, data_rows |-> RowsAfterHeader(t)]
          ELSE [skip |-> FALSE, col_map |-> cm, data_rows |-> t]

\* a table with at least 2 rows whose first row, or whose second row when it has
\* more than 2 rows, has a cell that matches a field
Recognisable(t) ==
  /\ Len(t) >= 2
  /\ \/ \E i \in 1..Len(t[1]) : MatchOf[t[1][i], columns] # NoMatch
     \/ /\ Len(t) > 2
        /\ \E i \in 1..Len(t[2]) : MatchOf[t[2][i], columns] # NoMatch

\* for table in tables, with at least 2 rows
NextTable ==
  /\ pc = "tables"
  /\ ntables < MaxTables
  /\ \E n \in 2..MaxRows : \E t \in TablesOfLen(n) :
       /\ nrows + n <= MaxDocRows
       /\ LET d == HeaderDecision(t, col_map)
          IN /\ col_map' = d.col_map
             /\ data_rows' = d.data_rows
             /\ pc' = IF d.skip THEN "tables" ELSE "rows"
             /\ table' = IF d.skip THEN <<>> ELSE t
             /\ entry' = IF d.skip THEN NoEntry
                         ELSE [col_map |-> col_map, n |-> Len(students),
                               recognised |-> recognised]
       /\ nrows' = nrows + Len(t)
       /\ recognised' = (recognised \/ Recognisable(t))
  /\ ntables' = ntables + 1
  /\ UNCHANGED <<file_path, columns, page, students, errors>>
  /\ UNCHANGED <<cvars, hvars, evars>>

\* if not row or all(cell is None or str(cell).strip() == "" for cell in row): continue
SkipsRow(row) ==
  \/ row = <<>>
  \/ \A i \in 1..Len(row) : row[i] = NoneCell \/ strip(row[i]) = <<>>

\* the same with the record put in front of the list
AfterRow_prepend(row, cm, sts) ==
  IF SkipsRow(row) THEN sts
  ELSE IF ~is_empty(_row_to_student(row, cm.items))
       THEN <<_row_to_student(row, cm.items)>> \o sts
       ELSE sts

\* the body of `for row in data_rows`: the students after the row
AfterRow(row, cm, sts) ==
  IF SkipsRow(row) THEN sts
  ELSE LET student == _row_to_student(row, cm.items)
       IN IF ~is_empty(student) THEN Append(sts, student) ELSE sts

\* the same with `break` in place of `continue` on a skipped row
ProcessRow_break ==
  /\ pc = "rows"
  /\ data_rows # <<>>
  /\ students' = AfterRow(Head(data_rows), col_map, students)
  /\ data_rows' = IF SkipsRow(Head(data_rows)) THEN <<>> ELSE Tail(data_rows)
  /\ UNCHANGED <<pc, file_path, columns, page, ntables, nrows, table, col_map, errors, recognised,
                 entry>>
  /\ UNCHANGED <<cvars, hvars, evars>>

\* one iteration of `for row in data_rows`
ProcessRow ==
  /\ pc = "rows"
  /\ data_rows # <<>>
  /\ students' = AfterRow(Head(data_rows), col_map, students)
  /\ data_rows' = Tail(data_rows)
  /\ UNCHANGED <<pc, file_path, columns, page, ntables, nrows, table, col_map, errors, recognised,
                 entry>>
  /\ UNCHANGED <<cvars, hvars, evars>>

\* the row loop ends: back to `for table in tables`
EndRows ==
  /\ pc = "rows"
  /\ data_rows = <<>>
  /\ pc' = "tables"
  /\ table' = <<>>
  /\ entry' = NoEntry
  /\ UNCHANGED <<file_path, columns, page, ntables, nrows, col_map, data_rows, students, errors,
                 recognised>>
  /\ UNCHANGED <<cvars, hvars, evars>>

\* the tables of the page are exhausted: back to `for page in pdf.pages`
EndTables ==
  /\ pc = "tables"
  /\ pc' = "pages"
  /\ table' = <<>>
  /\ UNCHANGED <<file_path, columns, page, ntables, nrows, col_map, data_rows, students,
                 errors, recognised, entry>>
  /\ UNCHANGED <<cvars, hvars, evars>>

\* the pages are exhausted: if col_map is None: one error; return result
EndPages ==
  /\ pc = "pages"
  /\ page >= 1
  /\ Return(IF col_map.isNone THEN ErrNoTable ELSE "")

\* the same with no `except Exception`: the exception leaves the call
Raise_uncaught ==
  /\ pc \in {"start", "pages", "tables", "rows"}
  /\ Checked
  /\ pc' = "raised"
  /\ UNCHANGED <<file_path, columns, page, ntables, nrows, table, col_map, data_rows,
                 students, errors, recognised, entry>>
  /\ UNCHANGED <<cvars, hvars, evars>>

\* except Exception as e: one error; what was appended before stays
Raise ==
  /\ pc \in {"start", "pages", "tables", "rows"}
  /\ Checked
  /\ Return(ErrException)

Next ==
  \/ FileNotFound
  \/ NotAPdf
  \/ NoPages
  \/ OpenOk
  \/ NextPage
  \/ SkipTable
  \/ NextTable
  \/ ProcessRow
  \/ EndRows
  \/ EndTables
  \/ EndPages
  \/ Raise

Spec == Init /\ [][Next]_vars

\* ------------------------------------------------------------------------
\* _match_column and _build_column_map on header rows
\* ------------------------------------------------------------------------

\* bound on the length of the header rows explored
MaxHeaders == 3

\* header cells: None, "", " Sex", "Gender", "Last Name", "Name", "M", "No"
HeaderPool ==
  {NoneCell, <<>>, <<" ", "S", "e", "x">>, <<"G", "e", "n", "d", "e", "r">>,
   <<"L", "a", "s", "t", " ", "N", "a", "m", "e">>, <<"N", "a", "m", "e">>, <<"M">>, <<"N", "o">>}

InitColumns ==
  /\ columns \in ColumnsPool
  /\ WalkerAt("idle")
  /\ MapperAt("input")
  /\ MatcherIdle
  /\ RowAt("idle")
  /\ BatchAt("idle")
  /\ ExporterIdle

\* the caller reads the next cell of the header row; _match_column on it
AddHeader ==
  /\ cpc = "input"
  /\ Len(headers) < MaxHeaders
  /\ \E c \in HeaderPool :
       /\ headers' = Append(headers, c)
       /\ matched' = Append(matched, _match_column(c, columns))
  /\ UNCHANGED <<evars, columns, wvars, hvars, built, cpc>>

\* col_map = _build_column_map(headers, columns)
BuildColumnMap ==
  /\ cpc = "input"
  /\ built' = _build_column_map(headers, columns)
  /\ cpc' = "built"
  /\ UNCHANGED <<evars, columns, wvars, hvars, headers, matched>>

NextColumns ==
  \/ AddHeader
  \/ BuildColumnMap

SpecColumns == InitColumns /\ [][NextColumns]_vars

\* ------------------------------------------------------------------------
\* _match_column on headers that differ in letter case and whitespace
\* ------------------------------------------------------------------------

\* bound on the number of changes made to a header
MaxEdits == 2

\* headers to start from: "Last Name", "Sex"
BaseHeaders == {<<"L", "a", "s", "t", " ", "N", "a", "m", "e">>, <<"S", "e", "x">>}

\* str.upper() on one character
ToUpper == [c \in {ToLower[u] : u \in DOMAIN ToLower} |->
              CHOOSE u \in DOMAIN ToLower : ToLower[u] = c]

\* s with c put after its first p characters; s without its p-th character
InsertAt(s, p, c) == SubSeq(s, 1, p) \o <<c>> \o SubSeq(s, p + 1, Len(s))
DeleteAt(s, p) == SubSeq(s, 1, p - 1) \o SubSeq(s, p + 1, Len(s))

IsSpaceAt(s, p) == p \in 1..Len(s) /\ s[p] \in Whitespace

\* the gap after the first p characters is at an end of s or next to whitespace
GapOutsideWords(s, p) ==
  p = 0 \/ p = Len(s) \/ IsSpaceAt(s, p) \/ IsSpaceAt(s, p + 1)

\* the whitespace at p is at an end of s or next to other whitespace
SpareSpaceAt(s, p) ==
  /\ IsSpaceAt(s, p)
  /\ (p = 1 \/ p = Len(s) \/ IsSpaceAt(s, p - 1) \/ IsSpaceAt(s, p + 1))

InitHeader ==
  /\ columns \in ColumnsPool
  /\ WalkerAt("idle")
  /\ MapperAt("idle")
  /\ RowAt("idle")
  /\ BatchAt("idle")
  /\ ExporterIdle
  /\ h1 \in BaseHeaders
  /\ h2 = h1
  /\ m1 = NoMatch
  /\ m2 = NoMatch
  /\ loose = FALSE
  /\ edits = 0
  /\ hpc = "first"

\* _match_column(h1, columns)
MatchFirst ==
  /\ hpc = "first"
  /\ m1' = _match_column(h1, columns)
  /\ m2' = _match_column(h2, columns)
  /\ hpc' = "vary"
  /\ UNCHANGED <<evars, columns, wvars, cvars, h1, h2, loose, edits>>

\* h2 becomes h and is matched again
Rematch(h, split_or_join) ==
  /\ hpc = "vary"
  /\ edits < MaxEdits
  /\ h2' = h
  /\ m2' = _match_column(h, columns)
  /\ loose' = (loose \/ split_or_join)
  /\ edits' = edits + 1
  /\ UNCHANGED <<evars, columns, wvars, cvars, h1, m1, hpc>>

\* one letter of h2 changes case
ToggleCase ==
  \E p \in 1..Len(h2) :
    \/ /\ h2[p] \in DOMAIN ToLower
       /\ Rematch([h2 EXCEPT ![p] = ToLower[h2[p]]], FALSE)
    \/ /\ h2[p] \in DOMAIN ToUpper
       /\ Rematch([h2 EXCEPT ![p] = ToUpper[h2[p]]], FALSE)

\* whitespace is added at an end of h2 or next to whitespace
PadWhitespace ==
  \E p \in 0..Len(h2), c \in {" ", "\n"} :
    /\ GapOutsideWords(h2, p)
    /\ Rematch(InsertAt(h2, p, c), FALSE)

\* whitespace at an end of h2 or next to other whitespace is removed
TrimWhitespace ==
  \E p \in 1..Len(h2) :
    /\ SpareSpaceAt(h2, p)
    /\ Rematch(DeleteAt(h2, p), FALSE)

\* whitespace is added inside a word of h2
SplitWord ==
  \E p \in 0..Len(h2), c \in {" ", "\n"} :
    /\ ~GapOutsideWords(h2, p)
    /\ Rematch(InsertAt(h2, p, c), TRUE)

\* the only whitespace between two words of h2 is removed
JoinWords ==
  \E p \in 1..Len(h2) :
    /\ IsSpaceAt(h2, p)
    /\ ~SpareSpaceAt(h2, p)
    /\ Rematch(DeleteAt(h2, p), TRUE)

NextHeader ==
  \/ MatchFirst
  \/ ToggleCase
  \/ PadWhitespace
  \/ TrimWhitespace
  \/ SplitWord
  \/ JoinWords

SpecHeader == InitHeader /\ [][NextHeader]_vars

\* ------------------------------------------------------------------------
\* _row_to_student on data rows and column maps
\* ------------------------------------------------------------------------

\* bound on the length of the data rows explored; mapped indexes go one past it
MaxCells == 2

\* data cells: None, "", " ", " Ana\n", "M"
DataCellPool == {NoneCell, <<>>, <<" ">>, <<" ", "A", "n", "a", "\n">>, <<"M">>}

\* the canonical fields the maps explored assign
MappedFieldPool == {"lastname", "gender"}

InitRow ==
  /\ columns = NoneColumns
  /\ WalkerAt("idle")
  /\ MapperAt("idle")
  /\ MatcherIdle
  /\ RowAt("input")
  /\ BatchAt("idle")
  /\ ExporterIdle

\* the caller's row gets one more cell
AddCell ==
  /\ rpc = "input"
  /\ Len(in_row) < MaxCells
  /\ \E c \in DataCellPool : in_row' = Append(in_row, c)
  /\ UNCHANGED <<columns, wvars, cvars, hvars, bvars, exporter_vars, in_map, out_student, in_row2,
                 out_student2, rpc>>

\* the caller's column map gets one more item: a new index for a new field
AddMapping ==
  /\ rpc = "input"
  /\ \E i \in 0..MaxCells, f \in MappedFieldPool :
       /\ \A k \in 1..Len(in_map) : in_map[k].idx # i /\ in_map[k].field # f
       /\ in_map' = Append(in_map, [idx |-> i, field |-> f])
  /\ UNCHANGED <<columns, wvars, cvars, hvars, bvars, exporter_vars, in_row, out_student, in_row2,
                 out_student2, rpc>>

\* student = _row_to_student(row, col_map)
RowToStudent ==
  /\ rpc = "input"
  /\ out_student' = _row_to_student(in_row, in_map)
  /\ rpc' = "projected"
  /\ UNCHANGED <<columns, wvars, cvars, hvars, bvars, exporter_vars, in_row, in_map, in_row2, out_student2>>

\* _row_to_student again, on the row with another cell at an index the map
\* does not hold
RowToStudentAgain ==
  /\ rpc = "projected"
  /\ \E p \in 1..Len(in_row), c \in DataCellPool :
       /\ \A k \in 1..Len(in_map) : in_map[k].idx # p - 1
       /\ c # in_row[p]
       /\ in_row2' = [in_row EXCEPT ![p] = c]
       /\ out_student2' = _row_to_student([in_row EXCEPT ![p] = c], in_map)
  /\ rpc' = "again"
  /\ UNCHANGED <<columns, wvars, cvars, hvars, bvars, exporter_vars, in_row, in_map, out_student>>

NextRow ==
  \/ AddCell
  \/ AddMapping
  \/ RowToStudent
  \/ RowToStudentAgain

SpecRow == InitRow /\ [][NextRow]_vars

\* ------------------------------------------------------------------------
\* extract_batch and aggregate_students
\* ------------------------------------------------------------------------

\* bound on the number of paths in a batch
MaxFiles == 3

\* ExtractionResult(source_file, students, errors)
ExtractionResult(name, sts, errs) ==
  [source_file |-> name, students |-> sts, errors |-> errs]

\* for row in data_rows: ...
RECURSIVE WalkRows(_, _, _)
WalkRows(rows, cm, sts) ==
  IF rows = <<>> THEN sts
  ELSE WalkRows(Tail(rows), cm, AfterRow(Head(rows), cm, sts))

\* the column map and the students after the row loop of a header decision d
AfterDecision(d, sts) ==
  [col_map |-> d.col_map,
   students |-> IF d.skip THEN sts ELSE WalkRows(d.data_rows, d.col_map, sts)]

\* one iteration of `for table in tables`; w is the column map and the
\* students so far
WalkTable(t, w) ==
  IF Len(t) < 2 THEN w
  ELSE AfterDecision(HeaderDecision(t, w.col_map), w.students)

\* for table in tables: ...
RECURSIVE WalkTables(_, _)
WalkTables(tabs, w) ==
  IF tabs = <<>> THEN w
  ELSE WalkTables(Tail(tabs), WalkTable(Head(tabs), w))

\* for page in pdf.pages: ...; a page whose extract_tables() raises ends the walk
RECURSIVE WalkPages(_, _)
WalkPages(pages, w) ==
  IF pages = <<>>
  THEN [raised |-> FALSE, col_map |-> w.col_map, students |-> w.students]
  ELSE IF Head(pages).raises
  THEN [raised |-> TRUE, col_map |-> w.col_map, students |-> w.students]
  ELSE WalkPages(Tail(pages), WalkTables(Head(pages).tables, w))

\* the same with no `except Exception`: the exception leaves the call
AfterWalk_uncaught(name, w) ==
  [raised |-> w.raised,
   result |-> ExtractionResult(name, w.students,
                IF w.col_map.isNone /\ ~w.raised THEN <<ErrNoTable>> ELSE <<>>)]

\* if col_map is None: one error; except Exception as e: one error; return result
AfterWalk(name, w) ==
  [raised |-> FALSE,
   result |-> ExtractionResult(name, w.students,
                IF w.raised THEN <<ErrException>>
                ELSE IF w.col_map.isNone THEN <<ErrNoTable>> ELSE <<>>)]

\* the same with the column map an earlier call left in the worker
StartOfWalk_carried(carried) == [col_map |-> carried, students |-> <<>>]

\* result = ExtractionResult(...); col_map = None: a call starts with no
\* column map and no student, whatever column map an earlier call ended with
StartOfWalk(carried) == [col_map |-> NoneMap, students |-> <<>>]

\* one whole call of extract_from_pdf whose walk starts from w0; what it comes
\* to is a returned result
ExtractFrom(fp, w0) ==
  IF ~fp.exists THEN
    [raised |-> FALSE, result |-> ExtractionResult(fp.name, <<>>, <<ErrFileNotFound>>)]
  ELSE IF ~IsPdf(fp.suffix) THEN
    [raised |-> FALSE, result |-> ExtractionResult(fp.name, <<>>, <<ErrNotPdf>>)]
  ELSE IF fp.pages = <<>> THEN
    [raised |-> FALSE, result |-> ExtractionResult(fp.name, <<>>, <<ErrNoPages>>)]
  ELSE AfterWalk(fp.name, WalkPages(fp.pages, w0))

\* the column map a call of extract_from_pdf ends with
FinalMap(fp, w0) ==
  IF ~fp.exists \/ ~IsPdf(fp.suffix) \/ fp.pages = <<>> THEN w0.col_map
  ELSE WalkPages(fp.pages, w0).col_map

\* _extract = functools.partial(extract_from_pdf, columns=columns): a call of
\* extract_from_pdf on its own
_extract(fp) == ExtractFrom(fp, [col_map |-> NoneMap, students |-> <<>>])

\* a page with these tables; a page whose extract_tables() raises
PageOf(tabs) == [tables |-> tabs, raises |-> FALSE]
PageRaising == [tables |-> <<>>, raises |-> TRUE]

\* paths and what is on disk under them: no file; a text file; a PDF whose one
\* page has no table; a PDF with a header row and three rows; a PDF whose
\* second page cannot be parsed
FileGone ==
  [name |-> "gone.pdf", exists |-> FALSE, suffix |-> <<".", "p", "d", "f">>,
   pages |-> <<>>]
FileNotes ==
  [name |-> "notes.txt", exists |-> TRUE, suffix |-> <<".", "t", "x", "t">>,
   pages |-> <<>>]
FileBlank ==
  [name |-> "blank.PDF", exists |-> TRUE, suffix |-> <<".", "P", "D", "F">>,
   pages |-> <<PageOf(<<>>)>>]
FileAna ==
  [name |-> "ana.pdf", exists |-> TRUE, suffix |-> <<".", "p", "d", "f">>,
   pages |-> <<PageOf(<< <<RowLastFirst, RowOneM, RowNoneBlank, RowFirstLast>> >>)>>]
FileBroken ==
  [name |-> "broken.pdf", exists |-> TRUE, suffix |-> <<".", "p", "d", "f">>,
   pages |-> <<PageOf(<< <<RowFirstLast, RowOneM>> >>), PageRaising>>]

FilePool == {FileGone, FileNotes, FileBlank, FileAna, FileBroken}

\* the call has not finished
Pending == [done |-> FALSE, raised |-> FALSE, result |-> ExtractionResult("", <<>>, <<>>)]

\* os.cpu_count() values explored: None (as 0) and 1
CpuCounts == {0, 1}

InitBatch ==
  /\ columns = NoneColumns
  /\ WalkerAt("idle")
  /\ MapperAt("idle")
  /\ MatcherIdle
  /\ RowAt("idle")
  /\ BatchAt("input")
  /\ ExporterIdle

\* the caller's list gets one more path
AddPath ==
  /\ bpc = "input"
  /\ Len(file_paths) < MaxFiles
  /\ \E fp \in FilePool : file_paths' = Append(file_paths, fp)
  /\ UNCHANGED <<columns, wvars, cvars, hvars, rvars, exporter_vars, cpu_count, max_workers, next_task,
                 running, outcomes, finished_order, results, aggregated, bpc>>

\* extract_batch(file_paths) is called
CallBatch ==
  /\ bpc = "input"
  /\ cpu_count' \in CpuCounts
  /\ outcomes' = [i \in 1..Len(file_paths) |-> Pending]
  /\ bpc' = "called"
  /\ UNCHANGED <<columns, wvars, cvars, hvars, rvars, exporter_vars, file_paths, max_workers, next_task,
                 running, finished_order, results, aggregated>>

\* what list(...) makes of the calls: their results, or the exception of one
ListOf(rs) ==
  IF \E i \in 1..Len(rs) : rs[i].raised
  THEN [raised |-> TRUE, results |-> <<>>]
  ELSE [raised |-> FALSE, results |-> [i \in 1..Len(rs) |-> rs[i].result]]

\* return results, or the exception leaves extract_batch
ReturnList(l) ==
  /\ results' = l.results
  /\ bpc' = IF l.raised THEN "raised" ELSE "returned"

\* if len(file_paths) <= 1: return [extract_from_pdf(fp, columns) for fp in file_paths]
ExtractInProcess ==
  /\ bpc = "called"
  /\ Len(file_paths) <= 1
  /\ ReturnList(ListOf([i \in 1..Len(file_paths) |-> _extract(file_paths[i])]))
  /\ UNCHANGED <<columns, wvars, cvars, hvars, rvars, exporter_vars, file_paths, cpu_count, max_workers,
                 next_task, running, outcomes, finished_order, aggregated>>

\* max_workers = min(len(file_paths), os.cpu_count() or 4); the pool is made
\* and executor.map submits one call per path
OpenPool ==
  /\ bpc = "called"
  /\ Len(file_paths) > 1
  /\ LET cpus == IF cpu_count = 0 THEN 4 ELSE cpu_count
     IN max_workers' = IF Len(file_paths) < cpus THEN Len(file_paths) ELSE cpus
  /\ bpc' = "pool"
  /\ UNCHANGED <<columns, wvars, cvars, hvars, rvars, exporter_vars, file_paths, cpu_count, next_task,
                 running, outcomes, finished_order, results, aggregated>>

\* a free worker takes the next call, in the order of submission
StartTask ==
  /\ bpc = "pool"
  /\ next_task < Len(file_paths)
  /\ Cardinality(running) < max_workers
  /\ next_task' = next_task + 1
  /\ running' = running \cup {next_task + 1}
  /\ UNCHANGED <<columns, wvars, cvars, hvars, rvars, exporter_vars, file_paths, cpu_count, max_workers,
                 outcomes, finished_order, results, aggregated, bpc>>

\* the future of a finished call
Finished(o) == [done |-> TRUE, raised |-> o.raised, result |-> o.result]

\* the column map the calls that finished in this order left behind, the
\* last of them last
RECURSIVE CarriedAfter(_, _)
CarriedAfter(paths, order) ==
  IF order = <<>> THEN NoneMap
  ELSE FinalMap(paths[order[Len(order)]],
                StartOfWalk(CarriedAfter(paths, SubSeq(order, 1, Len(order) - 1))))

\* a worker finishes its call of _extract, after the calls that finished
\* before it; the outcome goes to the call's future
FinishTask ==
  /\ bpc = "pool"
  /\ \E i \in running :
       /\ running' = running \ {i}
       /\ outcomes' = [outcomes EXCEPT ![i] =
            Finished(ExtractFrom(file_paths[i],
                                 StartOfWalk(CarriedAfter(file_paths, finished_order))))]
       /\ finished_order' = Append(finished_order, i)
  /\ UNCHANGED <<columns, wvars, cvars, hvars, rvars, exporter_vars, file_paths, cpu_count, max_workers,
                 next_task, results, aggregated, bpc>>

\* the same in the order the calls finished
MapResults_as_completed(outs, order) == [k \in 1..Len(order) |-> outs[order[k]]]

\* executor.map(_extract, file_paths): the futures in the order of submission
MapResults(outs, order) == outs

\* results = list(executor.map(...)); return results
CollectResults ==
  /\ bpc = "pool"
  /\ \A i \in 1..Len(file_paths) : outcomes[i].done
  /\ ReturnList(ListOf(MapResults(outcomes, finished_order)))
  /\ UNCHANGED <<columns, wvars, cvars, hvars, rvars, exporter_vars, file_paths, cpu_count, max_workers,
                 next_task, running, outcomes, finished_order, aggregated>>

\* for student in result.students: aggregated.append({...})
StudentRows(result) ==
  [j \in 1..Len(result.students) |->
     [lastname |-> result.students[j].lastname,
      firstname |-> result.students[j].firstname,
      middlename |-> result.students[j].middlename,
      extension |-> result.students[j].extension,
      gender |-> result.students[j].gender,
      source_file |-> result.source_file]]

\* the same over the results without errors alone
RECURSIVE aggregate_students_clean(_)
aggregate_students_clean(rs) ==
  IF rs = <<>> THEN <<>>
  ELSE (IF Head(rs).errors = <<>> THEN StudentRows(Head(rs)) ELSE <<>>)
       \o aggregate_students_clean(Tail(rs))

\* for result in results: for student in result.students: ...
RECURSIVE aggregate_students(_)
aggregate_students(rs) ==
  IF rs = <<>> THEN <<>>
  ELSE StudentRows(Head(rs)) \o aggregate_students(Tail(rs))

\* aggregated = aggregate_students(results), as main.py's callers do next
Aggregate ==
  /\ bpc = "returned"
  /\ aggregated' = aggregate_students(results)
  /\ bpc' = "aggregated"
  /\ UNCHANGED <<columns, wvars, cvars, hvars, rvars, exporter_vars, file_paths, cpu_count, max_workers,
                 next_task, running, outcomes, finished_order, results>>

NextBatch ==
  \/ AddPath
  \/ CallBatch
  \/ ExtractInProcess
  \/ OpenPool
  \/ StartTask
  \/ FinishTask
  \/ CollectResults
  \/ Aggregate

SpecBatch == InitBatch /\ [][NextBatch]_vars

\* ------------------------------------------------------------------------
\* exporter.py: _build_full_name
\* ------------------------------------------------------------------------

\* values of a name part: None, "", "Ana", " Jr "
NamePartPool == {NoneCell, <<>>, <<"A", "n", "a">>, <<" ", "J", "r", " ">>}

\* (record.get(key) or "").strip()
Part(value) == IF value = NoneCell THEN <<>> ELSE strip(value)

\* name_parts = [first]; if middle: append; if ext: append
NameParts(first, middle, ext) ==
  <<first>> \o (IF middle # <<>> THEN <<middle>> ELSE <<>>)
            \o (IF ext # <<>> THEN <<ext>> ELSE <<>>)

\* f"{last}, {after_comma}" if last and after_comma; else last or after_comma or ""
FullNameOf(last, after_comma) ==
  IF last # <<>> /\ after_comma # <<>> THEN last \o <<",", " ">> \o after_comma
  ELSE IF last # <<>> THEN last
  ELSE after_comma

_build_full_name(record) ==
  FullNameOf(Part(record.lastname),
             join(<<" ">>, NameParts(Part(record.firstname), Part(record.middlename),
                                     Part(record.extension))))

InitName ==
  /\ columns = NoneColumns
  /\ WalkerAt("idle")
  /\ MapperAt("idle")
  /\ MatcherIdle
  /\ RowAt("idle")
  /\ BatchAt("idle")
  /\ raw_name \in [lastname : NamePartPool, firstname : NamePartPool,
                   middlename : NamePartPool, extension : NamePartPool]
  /\ full_name = <<>>
  /\ npc = "input"
  /\ ExportAt("idle")
  /\ ApiIdle

\* "full_name": _build_full_name(raw)
BuildFullName ==
  /\ npc = "input"
  /\ ExportAt("idle")
  /\ full_name' = _build_full_name(raw_name)
  /\ npc' = "built"
  /\ UNCHANGED <<columns, wvars, cvars, hvars, rvars, bvars, xvars, avars, raw_name>>

NextName == BuildFullName

SpecName == InitName /\ [][NextName]_vars

\* ------------------------------------------------------------------------
\* exporter.py: export_to_excel
\* ------------------------------------------------------------------------

\* bound on the number of records exported
MaxRecords == 2

HEADERS ==
  <<"Full Name", "Email", "Gender", "Beneficiary", "Age Range", "Affiliation Type",
    "Affiliation Name">>

field_keys ==
  <<"full_name", "email", "gender", "beneficiary", "age_range", "affiliation_type",
    "affiliation_name">>

\* export records: one with every field, one with empty fields, one with
\* empty fields alone, one that lacks keys
RecordJuan ==
  [full_name |-> "Dela Cruz, Juan Santos", email |-> "juan@test.com", gender |-> "M",
   beneficiary |-> "Youth", age_range |-> "15-20", affiliation_type |-> "University",
   affiliation_name |-> "University of Bohol"]
RecordMaria ==
  [full_name |-> "Reyes, Maria Lopez Jr.", email |-> "", gender |-> "F",
   beneficiary |-> "", age_range |-> "", affiliation_type |-> "",
   affiliation_name |-> ""]
RecordEmpty ==
  [full_name |-> "", email |-> "", gender |-> "", beneficiary |-> "", age_range |-> "",
   affiliation_type |-> "", affiliation_name |-> ""]
RecordPartial == [full_name |-> "Cruz", gender |-> "F"]

ExportRecordPool == {RecordJuan, RecordMaria, RecordEmpty, RecordPartial}

\* record.get(key, "")
Get(record, key) == IF key \in DOMAIN record THEN record[key] ELSE ""

\* [record.get(key, "") for key in field_keys]
RowOf(record) == [c \in 1..Len(field_keys) |-> Get(record, field_keys[c])]

\* what the named tab holds before the call, when it exists
OldRows == << <<"Full Name">>, <<"Old, Row">> >>

InitExport ==
  /\ columns = NoneColumns
  /\ WalkerAt("idle")
  /\ MapperAt("idle")
  /\ MatcherIdle
  /\ RowAt("idle")
  /\ BatchAt("idle")
  /\ NameIdle
  /\ creds_exists \in BOOLEAN
  /\ remote \in {[spreadsheet |-> FALSE, worksheet |-> FALSE],
                  [spreadsheet |-> TRUE, worksheet |-> FALSE],
                  [spreadsheet |-> TRUE, worksheet |-> TRUE]}
  /\ tab = IF remote.worksheet THEN OldRows ELSE <<>>
  /\ ExportAt("input")
  /\ ApiIdle

\* the caller's list gets one more record
AddRecord ==
  /\ xpc = "input"
  /\ Len(export_records) < MaxRecords
  /\ \E r \in ExportRecordPool : export_records' = Append(export_records, r)
  /\ UNCHANGED <<columns, wvars, cvars, hvars, rvars, bvars, nvars, avars, ws, widths, stream,
                 nwritten, gvars, xpc>>

\* export_to_excel(records): wb = Workbook(); the header row goes to row 1
WriteHeaderRow ==
  /\ xpc = "input"
  /\ ws' = [r \in {1} |-> HEADERS]
  /\ xpc' = "xl_rows"
  /\ UNCHANGED <<columns, wvars, cvars, hvars, rvars, bvars, nvars, avars, gvars, export_records,
                 widths, stream, nwritten>>

\* the same with enumerate(records, start=1)
DataRowIndex_from1(i) == i

\* for row_idx, record in enumerate(records, start=2): row_idx of the i-th record
DataRowIndex(i) == i + 1

\* one iteration of the data loop: ws.cell(row=row_idx, column=col_idx,
\* value=record.get(key, "")) for each key
WriteDataRow ==
  /\ xpc = "xl_rows"
  /\ nwritten < Len(export_records)
  /\ ws' = [r \in DOMAIN ws \cup {DataRowIndex(nwritten + 1)} |->
              IF r = DataRowIndex(nwritten + 1)
              THEN RowOf(export_records[nwritten + 1]) ELSE ws[r]]
  /\ nwritten' = nwritten + 1
  /\ UNCHANGED <<columns, wvars, cvars, hvars, rvars, bvars, nvars, avars, gvars, export_records,
                 widths, stream, xpc>>

\* the largest of a non-empty set of numbers
Max(S) == CHOOSE n \in S : \A k \in S : k <= n

\* max_len over the header and the cells of the column from row 2 on, plus 3
WidthOf(c) ==
  Max({Len(HEADERS[c])} \cup {Len(ws[r][c]) : r \in DOMAIN ws \ {1}}) + 3

\* the data loop ends; the column widths are set
AutoFit ==
  /\ xpc = "xl_rows"
  /\ nwritten = Len(export_records)
  /\ widths' = [c \in 1..Len(HEADERS) |-> WidthOf(c)]
  /\ xpc' = "xl_fitted"
  /\ UNCHANGED <<columns, wvars, cvars, hvars, rvars, bvars, nvars, avars, gvars, export_records, ws,
                 stream, nwritten>>

\* a row of the sheet no cell was written to
BlankSheetRow == [c \in 1..Len(HEADERS) |-> ""]

\* wb.save(stream); stream.seek(0); return stream: the rows 1..ws.max_row
SaveStream ==
  /\ xpc = "xl_fitted"
  /\ stream' = [r \in 1..Max(DOMAIN ws) |-> IF r \in DOMAIN ws THEN ws[r] ELSE BlankSheetRow]
  /\ xpc' = "xl_saved"
  /\ UNCHANGED <<columns, wvars, cvars, hvars, rvars, bvars, nvars, avars, gvars, export_records, ws,
                 widths, nwritten>>

\* ------------------------------------------------------------------------
\* exporter.py: export_to_google_sheet
\* ------------------------------------------------------------------------

\* the exceptions that leave export_to_google_sheet
FileNotFoundError == "FileNotFoundError"
RemoteError == "Exception"

\* spreadsheet.url of the spreadsheet opened, and of the one created
UrlOpened == "https://docs.google.com/spreadsheets/d/opened"
UrlCreated == "https://docs.google.com/spreadsheets/d/created"

\* the next position of export_to_google_sheet, with what the step changes
GsStep(next, call, sheet, rows) ==
  /\ xpc' = next
  /\ calls' = IF call = "" THEN calls ELSE Append(calls, call)
  /\ spreadsheet' = sheet
  /\ tab' = rows
  /\ UNCHANGED <<columns, wvars, cvars, hvars, rvars, bvars, nvars, avars, export_records, ws,
                 widths, stream, nwritten, creds_exists, remote, url, error>>

\* the same with no check of the credentials path
CheckCredentials_absent ==
  /\ xpc = "input"
  /\ GsStep("gs_authorize", "", spreadsheet, tab)

\* export_to_google_sheet(records, credentials_path, ...):
\* if not creds_path.exists(): raise FileNotFoundError
CheckCredentials ==
  /\ xpc = "input"
  /\ IF creds_exists
     THEN GsStep("gs_authorize", "", spreadsheet, tab)
     ELSE /\ xpc' = "raised"
          /\ error' = FileNotFoundError
          /\ UNCHANGED <<columns, wvars, cvars, hvars, rvars, bvars, nvars, avars,
                         export_records, ws, widths, stream, nwritten, creds_exists,
                         remote, tab, calls, spreadsheet, url>>

\* credentials = ...from_service_account_file(...); gc = gspread.authorize(credentials)
Authorize ==
  /\ xpc = "gs_authorize"
  /\ GsStep("gs_open", "authorize", spreadsheet, tab)

\* try: spreadsheet = gc.open(spreadsheet_name); except gspread.SpreadsheetNotFound
OpenSpreadsheet ==
  /\ xpc = "gs_open"
  /\ IF remote.spreadsheet
     THEN GsStep("gs_worksheet", "open", "opened", tab)
     ELSE GsStep("gs_create", "open", spreadsheet, tab)

\* spreadsheet = gc.create(spreadsheet_name)
CreateSpreadsheet ==
  /\ xpc = "gs_create"
  /\ GsStep("gs_worksheet", "create", "created", tab)

\* try: worksheet = spreadsheet.worksheet(worksheet_name); except
\* gspread.WorksheetNotFound; a spreadsheet just created may have the tab or not
OpenWorksheet ==
  /\ xpc = "gs_worksheet"
  /\ \E found \in BOOLEAN :
       /\ spreadsheet = "opened" => found = remote.worksheet
       /\ IF found
          THEN GsStep("gs_clear", "worksheet", spreadsheet, tab)
          ELSE GsStep("gs_add", "worksheet", spreadsheet, tab)

\* worksheet = spreadsheet.add_worksheet(title=worksheet_name, rows=..., cols=...)
AddWorksheet ==
  /\ xpc = "gs_add"
  /\ GsStep("gs_clear", "add_worksheet", spreadsheet, <<>>)

\* the same with no worksheet.clear()
ClearTab_skipped ==
  /\ xpc = "gs_clear"
  /\ GsStep("gs_update", "", spreadsheet, tab)

\* worksheet.clear()
ClearTab ==
  /\ xpc = "gs_clear"
  /\ GsStep("gs_update", "clear", spreadsheet, <<>>)

\* rows = [HEADERS] + [[record.get(key, "") for key in field_keys] for record in records]
SheetRows(records) == <<HEADERS>> \o [i \in 1..Len(records) |-> RowOf(records[i])]

\* the tab after worksheet.update(rows): the rows replace the cells they cover
Updated(old, rows) ==
  [r \in 1..(IF Len(old) > Len(rows) THEN Len(old) ELSE Len(rows)) |->
     IF r <= Len(rows) THEN rows[r] ELSE old[r]]

\* worksheet.update(rows, value_input_option="USER_ENTERED")
UpdateTab ==
  /\ xpc = "gs_update"
  /\ GsStep("gs_format", "update", spreadsheet, Updated(tab, SheetRows(export_records)))

\* worksheet.format("1:1", {"textFormat": {"bold": True}})
FormatHeader ==
  /\ xpc = "gs_format"
  /\ GsStep("gs_return", "format", spreadsheet, tab)

\* return spreadsheet.url
ReturnUrl ==
  /\ xpc = "gs_return"
  /\ url' = IF spreadsheet = "created" THEN UrlCreated ELSE UrlOpened
  /\ xpc' = "gs_returned"
  /\ UNCHANGED <<columns, wvars, cvars, hvars, rvars, bvars, nvars, avars, export_records, ws,
                 widths, stream, nwritten, creds_exists, remote, tab, calls, spreadsheet,
                 error>>

\* the call of a remote step, by position
CallAt ==
  [gs_authorize |-> "authorize", gs_open |-> "open", gs_create |-> "create",
   gs_worksheet |-> "worksheet", gs_add |-> "add_worksheet", gs_clear |-> "clear",
   gs_update |-> "update", gs_format |-> "format"]

\* a call to gspread fails with an error the function does not catch: the
\* call was made, it changed nothing, the exception leaves the function
RemoteFailure ==
  /\ xpc \in DOMAIN CallAt
  /\ calls' = Append(calls, CallAt[xpc])
  /\ error' = RemoteError
  /\ xpc' = "raised"
  /\ UNCHANGED <<columns, wvars, cvars, hvars, rvars, bvars, nvars, avars, export_records, ws,
                 widths, stream, nwritten, creds_exists, remote, tab, spreadsheet, url>>

NextExport ==
  \/ AddRecord
  \/ WriteHeaderRow
  \/ WriteDataRow
  \/ AutoFit
  \/ SaveStream
  \/ CheckCredentials
  \/ Authorize
  \/ OpenSpreadsheet
  \/ CreateSpreadsheet
  \/ OpenWorksheet
  \/ AddWorksheet
  \/ ClearTab
  \/ UpdateTab
  \/ FormatHeader
  \/ ReturnUrl
  \/ RemoteFailure

SpecExport == InitExport /\ [][NextExport]_vars

\* ------------------------------------------------------------------------
\* main.py: the export endpoints /api/export/excel and /api/export/gsheet
\* ------------------------------------------------------------------------

\* bound on the number of file results of a request
MaxRequestFiles == 2

\* a student of a request, and one whose fields are all ""
StudentCruz ==
  [EmptyRecord EXCEPT !.lastname = <<"C", "r", "u", "z">>, !.firstname = <<"A", "n", "a">>,
                      !.gender = <<"F">>]

\* the students of a file result of request.data
FileStudentsPool == {<<>>, <<StudentCruz>>, <<EmptyRecord, StudentCruz>>}

\* the dict the handler appends to all_records for one student; the request
\* leaves email, beneficiary, age_range, affiliation_type and affiliation_name
\* at their default ""
RecordFor(st) ==
  [full_name |-> _build_full_name(st), email |-> "", gender |-> st.gender,
   beneficiary |-> "", age_range |-> "", affiliation_type |-> "",
   affiliation_name |-> ""]

\* for file_result in request.data: for student in file_result.students:
\* all_records.append({...})
RECURSIVE AllRecords(_)
AllRecords(data) ==
  IF data = <<>> THEN <<>>
  ELSE [i \in 1..Len(Head(data)) |-> RecordFor(Head(data)[i])] \o AllRecords(Tail(data))

InitApi ==
  /\ columns = NoneColumns
  /\ WalkerAt("idle")
  /\ MapperAt("idle")
  /\ MatcherIdle
  /\ RowAt("idle")
  /\ BatchAt("idle")
  /\ NameIdle
  /\ creds_exists \in BOOLEAN
  /\ remote \in {[spreadsheet |-> FALSE, worksheet |-> FALSE],
                  [spreadsheet |-> TRUE, worksheet |-> FALSE],
                  [spreadsheet |-> TRUE, worksheet |-> TRUE]}
  /\ tab = IF remote.worksheet THEN OldRows ELSE <<>>
  /\ ExportAt("waiting")
  /\ endpoint \in {"excel", "gsheet"}
  /\ request_data \in UNION {[1..n -> FileStudentsPool] : n \in 0..MaxRequestFiles}
  /\ status_code = 0
  /\ apc = "request"

\* the handler ends with a response of the given status code
Respond(code) ==
  /\ status_code' = code
  /\ apc' = "responded"
  /\ UNCHANGED <<columns, wvars, cvars, hvars, rvars, bvars, nvars, xvars, endpoint,
                 request_data>>

\* export_excel and export_google_sheet up to the call of the exporter:
\* all_records is built; if not all_records: raise HTTPException(status_code=400)
BuildRecords ==
  /\ apc = "request"
  /\ IF AllRecords(request_data) = <<>>
     THEN Respond(400)
     ELSE /\ export_records' = AllRecords(request_data)
          /\ xpc' = "input"
          /\ apc' = "exporting"
          /\ UNCHANGED <<columns, wvars, cvars, hvars, rvars, bvars, nvars, ws, widths,
                         stream, nwritten, gvars, endpoint, request_data, status_code>>

\* stream = export_to_excel(all_records)
ExcelSteps ==
  /\ apc = "exporting"
  /\ endpoint = "excel"
  /\ \/ WriteHeaderRow
     \/ WriteDataRow
     \/ AutoFit
     \/ SaveStream

\* return StreamingResponse(stream, ...)
RespondExcel ==
  /\ apc = "exporting"
  /\ endpoint = "excel"
  /\ xpc = "xl_saved"
  /\ Respond(200)

\* url = export_to_google_sheet(records=all_records, ...)
GsheetSteps ==
  /\ apc = "exporting"
  /\ endpoint = "gsheet"
  /\ \/ CheckCredentials
     \/ Authorize
     \/ OpenSpreadsheet
     \/ CreateSpreadsheet
     \/ OpenWorksheet
     \/ AddWorksheet
     \/ ClearTab
     \/ UpdateTab
     \/ FormatHeader
     \/ ReturnUrl
     \/ RemoteFailure

\* the same with `except Exception` alone
StatusOfError_generic(err) == 500

\* except FileNotFoundError: 404; except Exception: 500
StatusOfError(err) == IF err = FileNotFoundError THEN 404 ELSE 500

\* return ExportResponse(success=True, ...), or the HTTPException of the
\* except clause the exception came to
RespondGsheet ==
  /\ apc = "exporting"
  /\ endpoint = "gsheet"
  /\ xpc \in {"gs_returned", "raised"}
  /\ Respond(IF xpc = "gs_returned" THEN 200 ELSE StatusOfError(error))

NextApi ==
  \/ BuildRecords
  \/ ExcelSteps
  \/ RespondExcel
  \/ GsheetSteps
  \/ RespondGsheet

SpecApi == InitApi /\ [][NextApi]_vars

\* ------------------------------------------------------------------------
\* Properties of the table walker
\* ------------------------------------------------------------------------

Walking == pc \in {"pages", "tables", "rows"}

\* the walker's two states, as the code tests them (`col_map is None`)
NO_HEADER_YET(cm) == cm.isNone
HEADER_ESTABLISHED(cm) == ~cm.isNone

\* the number of distinct canonical fields the cells of a row match
NFields(row) ==
  Cardinality({MatchOf[row[i], columns] : i \in 1..Len(row)} \ {NoMatch})

\* a cell that is null or blank after trimming
BlankCell(cell) ==
  cell = NoneCell \/ \A j \in 1..Len(cell) : cell[j] \in Whitespace

\* a row that is empty or whose cells are all null or blank
BlankRow(row) == \A i \in 1..Len(row) : BlankCell(row[i])

\* a row with text in a column the map maps
HasMappedText(row, items) ==
  \E k \in 1..Len(items) :
    items[k].idx < Len(row) /\ ~BlankCell(row[items[k].idx + 1])

\* the records the rows yield under a column map: one for each row with text
\* in a mapped column, in row order
RECURSIVE RecordsOf(_, _)
RecordsOf(rows, items) ==
  IF rows = <<>> THEN <<>>
  ELSE (IF HasMappedText(Head(rows), items)
        THEN <<_row_to_student(Head(rows), items)>> ELSE <<>>)
       \o RecordsOf(Tail(rows), items)

\* the records appended since the current table was taken
Emitted == SubSeq(students, entry.n + 1, Len(students))

\* the row loop of the current table has visited every row
TableDone == pc = "rows" /\ data_rows = <<>>

\* C1: while no table has yielded a column map the walker stays in
\* NO_HEADER_YET, so a table whose first row is a recognisable header, taken
\* after tables that yielded none, establishes its column map and the rows
\* after its first row that have text in a mapped column are emitted.
C1_LaterHeaderEstablishes ==
  (pc = "rows" /\ ~entry.recognised /\ NFields(table[1]) >= 1) =>
    /\ col_map = SomeMap(_build_column_map(table[1], columns))
    /\ (data_rows = <<>> =>
          Emitted = RecordsOf(Tail(table), _build_column_map(table[1], columns)))

\* C2: a document that opens with at least one page and raises no exception,
\* and in which no table had a recognisable candidate header row, ends with
\* the no-recognisable-table error and no students.
C2_NoHeaderGivesError ==
  (/\ pc = "done"
   /\ ~recognised
   /\ \A i \in 1..Len(errors) :
        errors[i] \notin {ErrFileNotFound, ErrNotPdf, ErrNoPages, ErrException}) =>
    /\ \E i \in 1..Len(errors) : errors[i] = ErrNoTable
    /\ students = <<>>

\* C3: a table with at least 2 rows taken in HEADER_ESTABLISHED leaves the
\* column map as it was; if its first row matches at least 2 distinct fields
\* the records it yields are those of the rows after the first, otherwise
\* those of all its rows, the first included, under the carried column map.
C3_EstablishedThreshold ==
  (TableDone /\ HEADER_ESTABLISHED(entry.col_map)) =>
    /\ col_map = entry.col_map
    /\ Emitted = RecordsOf(IF NFields(table[1]) >= 2 THEN Tail(table) ELSE table,
                           entry.col_map.items)

\* C3 witness: with a header established, a table whose first row matches
\* exactly one field was walked and its first row was emitted as a record
C3_Witness ==
  /\ TableDone
  /\ HEADER_ESTABLISHED(entry.col_map)
  /\ entry.col_map.items # <<>>
  /\ NFields(table[1]) = 1
  /\ Len(Emitted) = Len(table)

\* C4: a table taken in HEADER_ESTABLISHED whose first row matches at least 2
\* fields is projected with the column map of its own first row.
C4_RedeclaredHeaderRemaps ==
  (TableDone /\ HEADER_ESTABLISHED(entry.col_map) /\ NFields(table[1]) >= 2) =>
    Emitted = RecordsOf(Tail(table), _build_column_map(table[1], columns))

C6_BlankRowSkipped ==
  [][(pc = "rows" /\ pc' = "rows" /\ data_rows # <<>> /\ BlankRow(Head(data_rows))) =>
       (students' = students /\ data_rows' = Tail(data_rows))]_vars

\* C6 witness: a blank row was passed over and the row after it gave a record
C6_Witness ==
  /\ TableDone
  /\ Len(table) = 3
  /\ BlankRow(table[2])
  /\ table[2] # <<>>
  /\ Len(Emitted) = 1

\* C7: every record in result.students has a field that is non-blank after
\* trimming.
C7_NoBlankRecord ==
  \A i \in 1..Len(students) :
    \/ strip(students[i].lastname) # <<>>
    \/ strip(students[i].firstname) # <<>>
    \/ strip(students[i].middlename) # <<>>
    \/ strip(students[i].extension) # <<>>
    \/ strip(students[i].gender) # <<>>

\* C7 witness: under a map of the second column alone, a row with text only in
\* the first column and a blank second cell gave no record, the next row did
C7_Witness ==
  /\ TableDone
  /\ table = <<RowOneM, RowOneBlank, RowOneM>>
  /\ col_map.items = <<[idx |-> 1, field |-> "lastname"]>>
  /\ Len(students) = 1

\* ------------------------------------------------------------------------
\* Properties of the column mapper and the header matcher
\* ------------------------------------------------------------------------

\* the synonym table in force
TableOf(cols) == IF cols = NoneColumns THEN DEFAULT_COLUMNS ELSE cols

\* the field has a synonym v with v in h or h in v
FieldMatches(h, f) ==
  \E j \in 1..Len(f.variants) : contains(f.variants[j], h) \/ contains(h, f.variants[j])

\* no match for an absent, empty or whitespace-only header, otherwise the
\* first field in declaration order that matches the normalised header
ExpectedMatch(c, cols) ==
  IF BlankCell(c) THEN NoMatch
  ELSE LET h == _normalise(c)
           T == TableOf(cols)
           ok == {k \in 1..Len(T) : FieldMatches(h, T[k])}
       IN IF ok = {} THEN NoMatch
          ELSE T[CHOOSE k \in ok : \A l \in ok : k <= l].canonical

\* C8: the column map holds each field at most once, under the lowest index
\* whose header cell matches the field; every field some cell matches is in
\* it; it is empty exactly when no cell matches a field.
C8_ColumnMapFirstWins ==
  cpc = "built" =>
    LET M(k) == _match_column(headers[k + 1], columns)
        Idx == 0..(Len(headers) - 1)
    IN /\ \A i, j \in 1..Len(built) : i # j => built[i].field # built[j].field
       /\ \A i \in 1..Len(built) :
            /\ built[i].idx \in Idx
            /\ M(built[i].idx) = built[i].field
            /\ \A k \in Idx : k < built[i].idx => M(k) # built[i].field
       /\ \A k \in Idx :
            M(k) # NoMatch => \E i \in 1..Len(built) : built[i].field = M(k)
       /\ (built = <<>>) <=> (\A k \in Idx : M(k) = NoMatch)

\* C8 witness: " Sex", None, "Gender": both match gender, the first is kept
C8_Witness ==
  /\ cpc = "built"
  /\ columns = NoneColumns
  /\ Len(headers) = 3
  /\ matched[1] = "gender"
  /\ matched[3] = "gender"
  /\ built = <<[idx |-> 0, field |-> "gender"]>>

\* C9: _match_column returns no match for an absent, empty or whitespace-only
\* header, and otherwise the first field in declaration order with a synonym
\* that is in the normalised header or has the normalised header in it.
C9_MatchColumn ==
  \A i \in 1..Len(matched) : matched[i] = ExpectedMatch(headers[i], columns)

\* C9 witness: under the narrower table "Last Name" is firstname (by "name",
\* declared before lastname), "M" is firstname (it is in "name"), "" is no match
C9_Witness ==
  /\ columns = CUSTOM_COLUMNS
  /\ Len(headers) = 3
  /\ headers[2] = <<"M">>
  /\ headers[3] = <<>>
  /\ matched = <<"firstname", "firstname", NoMatch>>

\* C10 as stated: headers that differ only in letter case and in whitespace
\* match the same field.
C10_CaseAndWhitespaceInsensitive ==
  hpc = "vary" => m2 = m1

\* C10 amended: headers that differ only in letter case, in whitespace at the
\* ends and in the whitespace between the same words match the same field.
C10_CaseAndSpacingInsensitive ==
  (hpc = "vary" /\ ~loose) => m2 = m1

\* C10 witness: "Last Name" against "Last\nName" (a newline added next to the
\* space, the space removed), both lastname
C10_Witness ==
  /\ hpc = "vary"
  /\ ~loose
  /\ edits = 2
  /\ Len(h2) = Len(h1)
  /\ h2 # h1
  /\ \E p \in 1..Len(h2) : h2[p] = "\n"
  /\ m1 = "lastname"
  /\ m2 = "lastname"

\* ------------------------------------------------------------------------
\* Properties of the row projector
\* ------------------------------------------------------------------------

\* t is s without the whitespace at its two ends
IsTrimOf(t, s) ==
  \E a \in 0..Len(s) : \E b \in a..Len(s) :
    /\ t = SubSeq(s, a + 1, b)
    /\ \A i \in 1..a : s[i] \in Whitespace
    /\ \A i \in (b + 1)..Len(s) : s[i] \in Whitespace
    /\ (a < b => (s[a + 1] \notin Whitespace /\ s[b] \notin Whitespace))

\* v is what a field mapped to index idx takes from the row r
IsFieldOf(v, r, idx) ==
  IF idx >= Len(r) \/ r[idx + 1] = NoneCell \/ r[idx + 1] = <<>>
  THEN v = <<>>
  ELSE IsTrimOf(v, r[idx + 1])

\* C11: each field the column map holds is the trimmed text of the row's cell
\* at the mapped index, or empty when the index is past the end of the row or
\* the cell is null or empty; each field the map does not hold is empty; a
\* row that differs in a cell at an unmapped index gives the same record.
C11_RowToStudent ==
  /\ rpc \in {"projected", "again"} =>
       \A f \in DOMAIN EmptyRecord :
         IF \E k \in 1..Len(in_map) : in_map[k].field = f
         THEN \A k \in 1..Len(in_map) :
                in_map[k].field = f => IsFieldOf(out_student[f], in_row, in_map[k].idx)
         ELSE out_student[f] = <<>>
  /\ rpc = "again" => out_student2 = out_student

\* C11 witness: [" Ana\n", "M"] under {0: lastname, 2: gender} gave lastname
\* "Ana" and no gender, and the same with the unmapped "M" replaced
C11_Witness ==
  /\ rpc = "again"
  /\ in_row = << <<" ", "A", "n", "a", "\n">>, <<"M">> >>
  /\ in_map = <<[idx |-> 0, field |-> "lastname"], [idx |-> 2, field |-> "gender"]>>
  /\ out_student.lastname = <<"A", "n", "a">>
  /\ out_student.gender = <<>>
  /\ in_row2[2] # in_row[2]

\* ------------------------------------------------------------------------
\* Properties of the batch coordinator and the aggregator
\* ------------------------------------------------------------------------

\* extract_batch has returned
BatchReturned == bpc \in {"returned", "aggregated"}

\* C12: extract_batch returns one result per input path and the i-th result
\* has the file name of the i-th path, whatever the order in which the
\* workers finish.
C12_BatchKeepsInputOrder ==
  BatchReturned =>
    /\ Len(results) = Len(file_paths)
    /\ \A i \in 1..Len(file_paths) : results[i].source_file = file_paths[i].name

\* C12 witness: three different files, the last finished first, the first last
C12_Witness ==
  /\ BatchReturned
  /\ Len(file_paths) = 3
  /\ finished_order = <<3, 2, 1>>
  /\ file_paths[1].name # file_paths[2].name
  /\ file_paths[2].name # file_paths[3].name
  /\ file_paths[1].name # file_paths[3].name

\* the extension is .pdf in some letter case
AnyCasePdf(suffix) ==
  /\ Len(suffix) = 4
  /\ suffix[1] = "."
  /\ suffix[2] \in {"p", "P"}
  /\ suffix[3] \in {"d", "D"}
  /\ suffix[4] \in {"f", "F"}

\* the failure of a path: a missing file, a wrong type, a page that cannot be
\* parsed, no table on any page; "" for none of these
FailureOf(fp) ==
  IF ~fp.exists THEN ErrFileNotFound
  ELSE IF ~AnyCasePdf(fp.suffix) THEN ErrNotPdf
  ELSE IF \E k \in 1..Len(fp.pages) : fp.pages[k].raises THEN ErrException
  ELSE IF fp.pages # <<>> /\ \A k \in 1..Len(fp.pages) : fp.pages[k].tables = <<>>
       THEN ErrNoTable
  ELSE ""

HasError(err) == \E k \in 1..Len(errors) : errors[k] = err

\* C14: an exception raised while the document is opened or its pages, tables
\* and rows are walked does not leave extract_from_pdf: the call returns, its
\* errors gain one error for the file and the records appended before stay.
C14_ExceptionBecomesOneError ==
  [][/\ pc' \in {"start", "pages", "tables", "rows", "done"}
     /\ Raise => /\ pc' = "done"
                 /\ errors' = Append(errors, ErrException)
                 /\ students' = students]_vars

\* C14 witness: the call returned with the error of an exception as its only
\* error and with two records appended before it
C14_Witness ==
  /\ pc = "done"
  /\ errors = <<ErrException>>
  /\ Len(students) = 2

\* no page and no table was taken and there is no student
NothingWalked == page = 0 /\ ntables = 0 /\ students = <<>>

\* C15: a path that does not exist gives the file-not-found error alone,
\* whatever its extension; an existing path whose extension is not .pdf in
\* some letter case gives the not-a-PDF error alone, and one whose extension
\* is gives neither; a document with zero pages gives the no-pages error
\* alone; in each case nothing was walked and there is no student.
C15_PreflightShortCircuits ==
  /\ ~file_path.exists =>
       /\ pc \in {"idle", "start", "done"}
       /\ NothingWalked
       /\ pc = "done" => errors = <<ErrFileNotFound>>
  /\ (file_path.exists /\ ~AnyCasePdf(file_path.suffix)) =>
       /\ pc \in {"start", "done"}
       /\ NothingWalked
       /\ pc = "done" => errors = <<ErrNotPdf>>
  /\ (file_path.exists /\ AnyCasePdf(file_path.suffix)) =>
       /\ ~HasError(ErrFileNotFound)
       /\ ~HasError(ErrNotPdf)
       /\ (pc = "done" /\ page = 0 /\ ~HasError(ErrException)) =>
            errors = <<ErrNoPages>>
  /\ HasError(ErrNoPages) => (errors = <<ErrNoPages>> /\ NothingWalked)

\* C15 witness: a missing path with the suffix .txt gave file-not-found
C15_Witness ==
  /\ pc = "done"
  /\ ~file_path.exists
  /\ file_path.suffix = <<".", "t", "x", "t">>
  /\ errors = <<ErrFileNotFound>>
  /\ NothingWalked

\* ------------------------------------------------------------------------
\* Properties of aggregate_students
\* ------------------------------------------------------------------------

\* the number of students of the first n results
RECURSIVE StudentsBefore(_, _)
StudentsBefore(rs, n) ==
  IF n = 0 THEN 0 ELSE StudentsBefore(rs, n - 1) + Len(rs[n].students)

\* C16: aggregate_students returns one row per student, in file order and
\* then student order, with the student's five fields and the source_file of
\* its result; the number of rows is the sum of the student counts, so a
\* result without students gives no row; results with errors give their rows
\* like the others; the results are left as extract_batch returned them.
C16_AggregateFlattens ==
  bpc = "aggregated" =>
    /\ Len(aggregated) = StudentsBefore(results, Len(results))
    /\ \A i \in 1..Len(results) : \A j \in 1..Len(results[i].students) :
         aggregated[StudentsBefore(results, i - 1) + j] =
           [lastname |-> results[i].students[j].lastname,
            firstname |-> results[i].students[j].firstname,
            middlename |-> results[i].students[j].middlename,
            extension |-> results[i].students[j].extension,
            gender |-> results[i].students[j].gender,
            source_file |-> results[i].source_file]
    /\ \A i \in 1..Len(results) : results[i] = _extract(file_paths[i]).result

\* C16 witness: a file with an error and one record, a missing file and a
\* file with two records gave three rows, the first of the first file and the
\* last of the third
C16_Witness ==
  /\ bpc = "aggregated"
  /\ file_paths = <<FileBroken, FileGone, FileAna>>
  /\ results[1].errors # <<>>
  /\ Len(aggregated) = 3
  /\ aggregated[1].source_file = "broken.pdf"
  /\ aggregated[2].source_file = "ana.pdf"
  /\ aggregated[3].lastname = <<"F", "i", "r", "s", "t", "n", "a", "m", "e">>

\* ------------------------------------------------------------------------
\* Properties of the exporter
\* ------------------------------------------------------------------------

\* the name parts that are not empty, in order
RECURSIVE NonEmpty(_)
NonEmpty(parts) ==
  IF parts = <<>> THEN <<>>
  ELSE (IF Head(parts) = <<>> THEN <<>> ELSE <<Head(parts)>>) \o NonEmpty(Tail(parts))

\* C17: the full name is the non-empty parts among firstname, middlename and
\* extension joined by one space each, with no space before or after, and
\* with "lastname, " before them when lastname and they are both non-empty;
\* with an empty lastname it is the joined parts alone, with everything empty
\* it is empty.  A part that is None or blank is empty, a part is taken trimmed.
C17_FullName ==
  npc = "built" =>
    LET last == Part(raw_name.lastname)
        rest == join(<<" ">>, NonEmpty(<<Part(raw_name.firstname),
                                         Part(raw_name.middlename),
                                         Part(raw_name.extension)>>))
    IN full_name = IF last # <<>> /\ rest # <<>> THEN last \o <<",", " ">> \o rest
                   ELSE IF last # <<>> THEN last ELSE rest

\* C18: export_to_excel writes one header row and one row per record: row 1
\* is Full Name, Email, Gender, Beneficiary, Age Range, Affiliation Type,
\* Affiliation Name, and row i+1 has the i-th record's full_name, email,
\* gender, beneficiary, age_range, affiliation_type and affiliation_name, an
\* absent one as ""; with no record there is the header row alone.
C18_ExcelRows ==
  xpc = "xl_saved" =>
    /\ Len(stream) = Len(export_records) + 1
    /\ stream[1] = <<"Full Name", "Email", "Gender", "Beneficiary", "Age Range",
                     "Affiliation Type", "Affiliation Name">>
    /\ \A i \in 1..Len(export_records) :
         stream[i + 1] = <<Get(export_records[i], "full_name"),
                           Get(export_records[i], "email"),
                           Get(export_records[i], "gender"),
                           Get(export_records[i], "beneficiary"),
                           Get(export_records[i], "age_range"),
                           Get(export_records[i], "affiliation_type"),
                           Get(export_records[i], "affiliation_name")>>

\* C18 witness: a record with every field and a record of empty fields gave
\* three rows, the third of empty cells
C18_Witness ==
  /\ xpc = "xl_saved"
  /\ export_records = <<RecordJuan, RecordEmpty>>
  /\ Len(stream) = 3
  /\ stream[2][7] = "University of Bohol"
  /\ stream[3] = BlankSheetRow

\* the calls that reach the remote service
RemoteCalls ==
  {"authorize", "open", "create", "worksheet", "add_worksheet", "clear", "update", "format"}

\* C19: when the credentials file does not exist, export_to_google_sheet
\* fails with FileNotFoundError before any remote call: it never reaches the
\* authorize, open, create, clear or update step, no call is made, and the
\* tab and the spreadsheet are as they were.
C19_MissingCredentials ==
  ~creds_exists =>
    /\ xpc \notin DOMAIN CallAt \cup {"gs_return", "gs_returned"}
    /\ \A i \in 1..Len(calls) : calls[i] \notin RemoteCalls
    /\ tab = (IF remote.worksheet THEN OldRows ELSE <<>>)
    /\ spreadsheet = "none"
    /\ url = ""
    /\ xpc = "raised" => error = FileNotFoundError

\* C19 witness: with two records to export and a tab that holds rows, the
\* call ended with FileNotFoundError
C19_Witness ==
  /\ ~creds_exists
  /\ xpc = "raised"
  /\ error = FileNotFoundError
  /\ Len(export_records) = 2
  /\ remote.worksheet
  /\ tab = OldRows

\* the steps the order is about
IsOrderedStep(call) == call \in {"open", "worksheet", "clear", "update"}

IsPrefix(s, t) == Len(s) <= Len(t) /\ \A i \in 1..Len(s) : s[i] = t[i]

\* C20: with credentials present the remote steps come in the order open the
\* spreadsheet (create it when not found), open the tab (create it when not
\* found), clear, write; a returned call has cleared once and then written
\* once, the tab holds the fixed header row followed by the records' rows in
\* input order, and the URL returned is that of the spreadsheet opened or
\* created.
C20_RemoteStepOrder ==
  creds_exists =>
    /\ IsPrefix(SelectSeq(calls, IsOrderedStep), <<"open", "worksheet", "clear", "update">>)
    /\ \A i \in 1..Len(calls) :
         /\ calls[i] = "create" => i > 1 /\ calls[i - 1] = "open" /\ ~remote.spreadsheet
         /\ calls[i] = "add_worksheet" =>
              /\ i > 1
              /\ calls[i - 1] = "worksheet"
              /\ spreadsheet = "opened" => ~remote.worksheet
    /\ xpc = "gs_returned" =>
         /\ SelectSeq(calls, IsOrderedStep) = <<"open", "worksheet", "clear", "update">>
         /\ (\E i \in 1..Len(calls) : calls[i] = "create") <=> ~remote.spreadsheet
         /\ spreadsheet = "opened" =>
              ((\E i \in 1..Len(calls) : calls[i] = "add_worksheet") <=> ~remote.worksheet)
         /\ Len(tab) = Len(export_records) + 1
         /\ tab[1] = <<"Full Name", "Email", "Gender", "Beneficiary", "Age Range",
                       "Affiliation Type", "Affiliation Name">>
         /\ \A i \in 1..Len(export_records) :
              tab[i + 1] = <<Get(export_records[i], "full_name"),
                             Get(export_records[i], "email"),
                             Get(export_records[i], "gender"),
                             Get(export_records[i], "beneficiary"),
                             Get(export_records[i], "age_range"),
                             Get(export_records[i], "affiliation_type"),
                             Get(export_records[i], "affiliation_name")>>
         /\ url = (IF remote.spreadsheet THEN UrlOpened ELSE UrlCreated)
         /\ error = ""

\* C20 witness: two records were written to a tab that held other rows, in a
\* spreadsheet that existed
C20_Witness ==
  /\ creds_exists
  /\ xpc = "gs_returned"
  /\ remote.worksheet
  /\ export_records = <<RecordMaria, RecordJuan>>
  /\ calls = <<"authorize", "open", "worksheet", "clear", "update", "format">>
  /\ Len(tab) = 3
  /\ tab[2][1] = "Reyes, Maria Lopez Jr."
  /\ url = UrlOpened

\* ------------------------------------------------------------------------
\* Properties of the walk as a whole
\* ------------------------------------------------------------------------

\* C22: a step that takes a table with fewer than 2 rows appends no record
\* and no error and leaves the carried column map, the rows to visit and the
\* position in the walk as they were, whether or not a column map is carried
\* and whatever the single row holds.
C22_ShortTableSkipped ==
  [][(ntables' = ntables + 1 /\ nrows' - nrows < 2) =>
       /\ students' = students
       /\ errors' = errors
       /\ col_map' = col_map
       /\ data_rows' = data_rows
       /\ recognised' = recognised
       /\ pc' = pc]_vars

\* C22 witness: with a column map carried and one record appended, a table
\* whose single row is a data row was taken and the record count stayed
C22_Witness ==
  /\ pc = "tables"
  /\ table = <<RowOneM>>
  /\ ~col_map.isNone
  /\ col_map.items # <<>>
  /\ Len(students) = 1
  /\ errors = <<>>

\* the data rows of the current table the row loop has visited
VisitedRows ==
  LET all_rows == HeaderDecision(table, entry.col_map).data_rows
  IN SubSeq(all_rows, 1, Len(all_rows) - Len(data_rows))

\* the row gives a record: it is not skipped and its record is not empty
GivesRecord(r) == ~SkipsRow(r) /\ ~is_empty(_row_to_student(r, col_map.items))

\* the records appended since the current table was taken
RecordsOfTable == SubSeq(students, entry.n + 1, Len(students))

\* the records of the current table are those of its visited rows that give
\* one, in row order, after the records of every earlier table
TableInRowOrder ==
  pc = "rows" =>
    /\ entry.n <= Len(students)
    /\ Len(RecordsOfTable) = Len(SelectSeq(VisitedRows, GivesRecord))
    /\ \A k \in 1..Len(RecordsOfTable) :
         RecordsOfTable[k] =
           _row_to_student(SelectSeq(VisitedRows, GivesRecord)[k], col_map.items)

\* a step leaves the students as they are or appends one record
AppendOnly ==
  \/ students' = students
  \/ /\ Len(students') = Len(students) + 1
     /\ SubSeq(students', 1, Len(students)) = students

\* C23: result.students is in document order: pages, tables and rows are
\* taken in their order, a step only ever appends one record at the end, and
\* the records of a table are those of its rows in row order, placed after
\* the records of all earlier tables; no record is reordered, replaced or
\* removed.
C23_DocumentOrder == []TableInRowOrder /\ [][AppendOnly]_vars

\* C23 witness: two tables on two pages gave three records, the first from
\* the first table and then the two rows of the second table in their order
C23_Witness ==
  /\ pc = "done"
  /\ page = 2
  /\ ntables = 2
  /\ Len(students) = 3
  /\ students[1].firstname = <<"M">>
  /\ students[2].firstname = <<>>
  /\ students[3].firstname = <<"M">>
  /\ students[2].lastname = <<"1">>

\* the errors that are given without a record being read
EarlyErrors == {ErrFileNotFound, ErrNotPdf, ErrNoPages, ErrNoTable}

\* C24: a result of extract_from_pdf has at most one error, so file not
\* found, not a PDF, no pages, no recognisable table and the error of an
\* exception exclude each other; when the error is one of the first four there
\* is no student.
C24_AtMostOneError ==
  /\ Len(errors) <= 1
  /\ \A k \in 1..Len(errors) :
       /\ errors[k] \in EarlyErrors \cup {ErrException}
       /\ errors[k] \in EarlyErrors => students = <<>>
  /\ (pc \in {"start", "pages", "tables", "rows"}) => errors = <<>>

\* C24 witness: two pages were walked and two tables taken, none with a header
\* row, and the result has the no-recognisable-table error alone
C24_Witness ==
  /\ pc = "done"
  /\ page = 2
  /\ ntables = 2
  /\ errors = <<ErrNoTable>>
  /\ students = <<>>

\* ------------------------------------------------------------------------
\* Properties of the export endpoints
\* ------------------------------------------------------------------------

\* the number of students of the file results of a request
RECURSIVE StudentCount(_)
StudentCount(data) == IF data = <<>> THEN 0 ELSE Len(Head(data)) + StudentCount(Tail(data))

\* no step of an exporter was taken and nothing was written anywhere
NoExportAttempted ==
  /\ xpc = "waiting"
  /\ calls = <<>>
  /\ stream = <<>>
  /\ tab = (IF remote.worksheet THEN OldRows ELSE <<>>)

\* C21: a request with no student in its data gets 400 from both export
\* endpoints and no exporter is called; a request with a student to the
\* Google Sheets endpoint gets 404 when the credentials file is missing, 500
\* when the remote export fails in another way and 200 when it returns; a
\* request with a student to the Excel endpoint gets 200.
C21_ExportOutcomes ==
  /\ StudentCount(request_data) = 0 =>
       /\ NoExportAttempted
       /\ apc = "responded" => status_code = 400
  /\ (apc = "responded" /\ StudentCount(request_data) > 0) =>
       /\ Len(export_records) = StudentCount(request_data)
       /\ endpoint = "excel" => status_code = 200 /\ xpc = "xl_saved"
       /\ endpoint = "gsheet" =>
            /\ ~creds_exists => status_code = 404 /\ calls = <<>>
            /\ (creds_exists /\ xpc = "raised") => status_code = 500
            /\ (creds_exists /\ xpc # "raised") =>
                 status_code = 200 /\ xpc = "gs_returned"
  /\ apc # "responded" => status_code = 0

\* C21 witness: a request with three students in two file results came to the
\* Google Sheets endpoint, the update of the tab failed after the clear and
\* the response is 500
C21_Witness ==
  /\ apc = "responded"
  /\ endpoint = "gsheet"
  /\ StudentCount(request_data) = 3
  /\ creds_exists
  /\ calls = <<"authorize", "open", "worksheet", "clear", "update">>
  /\ xpc = "raised"
  /\ status_code = 500

\* ------------------------------------------------------------------------
\* Properties of the process pool
\* ------------------------------------------------------------------------

\* extract_from_pdf on each path in turn, each call on its own
Sequentially(paths) == [i \in 1..Len(paths) |-> _extract(paths[i]).result]

\* C25: for more than one path, whatever the number of workers and the order
\* in which the calls finish, every finished call has the result
\* extract_from_pdf gives for its path on its own, and extract_batch returns
\* the list the calls give one after the other; a column map one file
\* established changes no other file's students or errors.
C25_PoolAsSequential ==
  Len(file_paths) > 1 =>
    /\ \A i \in 1..Len(outcomes) :
         outcomes[i].done =>
           /\ ~outcomes[i].raised
           /\ outcomes[i].result = Sequentially(file_paths)[i]
    /\ BatchReturned => results = Sequentially(file_paths)
    /\ bpc # "raised"

\* C25 witness: a file with a header row finished first, then a file with
\* another header row and a file without a table; the second has the record of
\* its own column order and the third has the no-table error
C25_Witness ==
  /\ BatchReturned
  /\ file_paths = <<FileBlank, FileBroken, FileAna>>
  /\ finished_order = <<3, 2, 1>>
  /\ results[1].errors = <<ErrNoTable>>
  /\ results[2].students[1].lastname = <<"M">>
  /\ results[3].students[1].lastname = <<"1">>

====
